---- MODULE Spec2Model ----
(***************************************************************************)
(* Model of the system report generator (class SystemReport and main()).   *)
(* The operating system behind psutil / socket / platform is an input: a   *)
(* record `env' drawn from bounded sets at every collect().                *)
(*                                                                         *)
(* Python values are encoded as follows:                                   *)
(*   None (numeric slot)  -> NoneVal (-1; every real reading is >= 0)      *)
(*   None (string slot)   -> "None"                                        *)
(*   dict                 -> function / record, {} is EmptyDict            *)
(*   insertion-ordered dict iterated by the code -> sequence of entries    *)
(*   list                 -> sequence                                      *)
(*   a call               -> [ok |-> BOOLEAN, exc |-> STRING, val |-> ...] *)
(* Readings that no operation of the program inspects (sizes, counters,    *)
(* names) are fixed representative values.                                 *)
(***************************************************************************)
EXTENDS Integers, Sequences, FiniteSets, TLC

\* ------------------------------------------------------------------ bounds
MaxClock    == 2   \* seconds of wall clock the model lets pass
MaxFail     == 1   \* primary OS queries that fail during one collect()
MaxParts    == 2   \* mounted partitions
MaxProcs    == 9   \* live processes in the ranking specification
MaxFewProcs == 2   \* live processes in the other specifications
MaxAddrs    == 3   \* addresses reported for one interface
MaxReadings == 3   \* temperature readings of one sensor chip

\* -------------------------------------------------------- program constants
TopN     == 8      \* procs[:8]
ShownIps == 2      \* info['ip_addresses'][:2]
KeptTemp == 2      \* entries[:2]

NoneVal   == -1
EmptyDict == << >>

VARIABLES
  clock,     \* datetime.datetime.now(), in seconds
  fmt,       \* self.fmt
  info,      \* self.info
  time,      \* self.time
  env,       \* the OS state read by the latest collect()
  started,   \* value of the clock when the latest collect() was entered
  calls,     \* how often the latest collect() invoked each collector
  ret,       \* outcome of the latest call: [op, ok, exc]
  text,      \* lines returned by the latest text_report()
  doc,       \* document returned by the latest json_report()
  pc,        \* position of main()
  args,      \* parsed command line of main()
  console,   \* what main() printed, oldest first
  files      \* files written by save(), oldest first

vars == <<clock, fmt, info, time, env, started, calls, ret, text, doc,
          pc, args, console, files>>

\* ---------------------------------------------------------------- helpers
Ok(v)      == [ok |-> TRUE,  exc |-> "",  val |-> v]
Raise(e)   == [ok |-> FALSE, exc |-> e,   val |-> EmptyDict]

Min(a, b)  == IF a < b THEN a ELSE b
Take(s, n) == SubSeq(s, 1, Min(n, Len(s)))          \* s[:n]

\* Python values whose type varies at one place carry a tag.
PyStr(s)   == [t |-> "str",  s |-> s,  l |-> << >>]
PyList(l)  == [t |-> "list", s |-> "", l |-> l]

\* The collectors in the order in which the dict display of collect()
\* evaluates them.
Collectors == <<"platform", "cpu", "memory", "disks", "network",
                "processes", "users", "boot", "sensors">>
CollectorSet == {Collectors[i] : i \in 1..Len(Collectors)}
Keys == <<"time">> \o Collectors

\* ------------------------------------------------------------- collectors
\* env.fails is the set of collectors whose first OS query raises an error
\* the collector does not handle (socket.gaierror from gethostbyname, a
\* psutil.Error or OSError from the psutil call).  env.load stands for the
\* readings that change from one moment to the next (utilisation, used
\* memory, packet counters).

_platform(e) ==
  IF "platform" \in e.fails THEN Raise("gaierror")
  ELSE Ok([system |-> "Linux", release |-> "6.1", version |-> "#1",
           host |-> "host", ip |-> "10.0.0.1"])

\* f"{freq.current:.0f} MHz" if freq else "N/A"
FmtFreq(f) == IF f = NoneVal THEN PyStr("N/A") ELSE PyList(<<f, "MHz">>)

_cpu(e) ==
  IF "cpu" \in e.fails THEN Raise("Error")
  ELSE Ok([physical_cores |-> 1, logical_cores |-> 2,
           freq |-> FmtFreq(e.freq), usage |-> 37 + e.load,
           per_cpu |-> <<30 + e.load, 44 + e.load>>])

_memory(e) ==
  IF "memory" \in e.fails THEN Raise("Error")
  ELSE Ok([total_ram |-> 8, used_ram |-> 3 + e.load,
           ram_percent |-> 37 + e.load, swap |-> 0])

\* One entry of psutil.disk_partitions(): usage is the outcome of
\* disk_usage(mountpoint), io the outcome of the per-disk counter lookup.
DiskInfo(p) ==
  IF p.io = "found"
    THEN [device |-> p.device, mountpoint |-> p.device, percent |-> 50,
          read_bytes |-> 1, write_bytes |-> 1]
    ELSE [device |-> p.device, mountpoint |-> p.device, percent |-> 50]

\* Variant: the loop ends at the first partition that cannot be read.
RECURSIVE DiskLoopBreak(_, _)
DiskLoopBreak(parts, disks) ==
  IF parts = << >> THEN disks
  ELSE LET part == Head(parts) IN
       IF part.usage = "ok"
         THEN DiskLoopBreak(Tail(parts), Append(disks, DiskInfo(part)))
         ELSE disks

RECURSIVE DiskLoop(_, _)
DiskLoop(parts, disks) ==
  IF parts = << >> THEN disks
  ELSE LET part == Head(parts) IN
       IF part.usage = "ok"
         THEN DiskLoop(Tail(parts), Append(disks, DiskInfo(part)))
         ELSE DiskLoop(Tail(parts), disks)            \* continue

_disks(e) ==
  IF "disks" \in e.fails THEN Raise("Error")
  ELSE Ok(DiskLoop(e.parts, << >>))

\* One interface of psutil.net_if_addrs(): addrs is its address list, stat
\* its entry in psutil.net_if_stats() (stat.present is `iface in net_if_stats').
RECURSIVE AddrLoop(_, _)
AddrLoop(addrs, acc) ==
  IF addrs = << >> THEN acc
  ELSE LET addr == Head(addrs) IN
       IF addr.family = "AF_INET"
         THEN AddrLoop(Tail(addrs),
                [acc EXCEPT !.ip_addresses = Append(@, <<"IPv4", addr.address>>)])
       ELSE IF addr.family = "AF_INET6"
         THEN AddrLoop(Tail(addrs),
                [acc EXCEPT !.ip_addresses = Append(@, <<"IPv6", addr.address>>)])
       ELSE IF addr.family = "AF_LINK"
         THEN AddrLoop(Tail(addrs), [acc EXCEPT !.mac = addr.address])
       ELSE AddrLoop(Tail(addrs), acc)

IfaceStats(stat) ==
  IF stat.present
    THEN [is_up |-> IF stat.isup THEN "UP" ELSE "DOWN",
          speed |-> IF stat.speed > 0 THEN PyList(<<stat.speed, "Mbps">>)
                                      ELSE PyStr("N/A"),
          mtu   |-> 1500]
    ELSE EmptyDict

Interface(i) ==
  LET a == AddrLoop(i.addrs, [ip_addresses |-> << >>, mac |-> NoneVal]) IN
  [name |-> i.name, ip_addresses |-> a.ip_addresses, mac |-> a.mac,
   stats |-> IfaceStats(i.stat)]

_network(e) ==
  IF "network" \in e.fails THEN Raise("Error")
  ELSE Ok([bytes_sent |-> 1, bytes_recv |-> 2, packets_sent |-> 3 + e.load,
           packets_recv |-> 4,
           interfaces |-> [k \in 1..Len(e.ifaces) |-> Interface(e.ifaces[k])]])

\* One process of psutil.process_iter(attrs): an attribute psutil could not
\* read is None; detail is the outcome of Process(pid).memory_info().
RECURSIVE ProcLoop(_, _)
ProcLoop(ps, procs) ==
  IF ps = << >> THEN procs
  ELSE LET p == Head(ps) IN
       IF p.detail = "ok"
         THEN ProcLoop(Tail(ps),
                Append(procs, [pid |-> p.pid, name |-> p.name,
                               cpu_percent |-> p.cpu_percent,
                               memory_percent |-> p.memory_percent,
                               memory_mb |-> 1]))
         ELSE ProcLoop(Tail(ps), procs)               \* continue

\* key=lambda x: x.get('memory_percent', 0); process_iter always sets the key.
SortKey(x) == x.memory_percent

\* list.sort(reverse=True) is stable: x goes behind every element whose key
\* is not smaller.
RECURSIVE InsertDesc(_, _)
InsertDesc(sorted, x) ==
  IF sorted = << >> THEN <<x>>
  ELSE IF SortKey(Head(sorted)) >= SortKey(x)
         THEN <<Head(sorted)>> \o InsertDesc(Tail(sorted), x)
         ELSE <<x>> \o sorted

RECURSIVE SortDesc(_, _)
SortDesc(todo, sorted) ==
  IF todo = << >> THEN sorted
  ELSE SortDesc(Tail(todo), InsertDesc(sorted, Head(todo)))

\* Ordering None against a number (or against None) raises TypeError; a list
\* of two or more elements compares every key at least once.
SortRaises(procs) ==
  /\ Len(procs) >= 2
  /\ \E k \in 1..Len(procs) : SortKey(procs[k]) = NoneVal

_processes(e) ==
  IF "processes" \in e.fails THEN Raise("Error")
  ELSE LET procs == ProcLoop(e.procs, << >>) IN
       IF SortRaises(procs) THEN Raise("TypeError")
       ELSE Ok(Take(SortDesc(procs, << >>), TopN))

_users(e) ==
  IF "users" \in e.fails THEN Raise("Error")
  ELSE Ok([k \in 1..e.users |-> [name |-> "user", host |-> "tty", started |-> k]])

_boot(e) ==
  IF "boot" \in e.fails THEN Raise("Error") ELSE Ok(0)

\* Variant: a platform without sensor support yields the empty mapping.
_sensorsEmpty(e) ==
  IF ~e.sensors.supported THEN Ok(EmptyDict)
  ELSE IF "sensors" \in e.fails THEN Raise("Error")
  ELSE LET temps == e.sensors.temps IN
       Ok([name \in DOMAIN temps |->
             PyList([k \in 1..Min(KeptTemp, Len(temps[name])) |->
                       [current |-> temps[name][k]]])])

\* env.sensors.supported is whether psutil has sensors_temperatures at all
\* (AttributeError otherwise); env.sensors.temps is what it returns, as a
\* function from chip name to the chip's readings.
_sensors(e) ==
  IF ~e.sensors.supported THEN Ok([info |-> PyStr("N/A")])
  ELSE IF "sensors" \in e.fails THEN Raise("Error")
  ELSE LET temps == e.sensors.temps IN
       Ok([name \in DOMAIN temps |->
             PyList([k \in 1..Min(KeptTemp, Len(temps[name])) |->
                       [current |-> temps[name][k]]])])

Collector(c, e) ==
  CASE c = "platform"  -> _platform(e)
    [] c = "cpu"       -> _cpu(e)
    [] c = "memory"    -> _memory(e)
    [] c = "disks"     -> _disks(e)
    [] c = "network"   -> _network(e)
    [] c = "processes" -> _processes(e)
    [] c = "users"     -> _users(e)
    [] c = "boot"      -> _boot(e)
    [] c = "sensors"   -> _sensors(e)

\* ---------------------------------------------------------------- collect
\* The dict display evaluates the collectors left to right; the first one
\* that raises ends collect() before self.info is assigned.
Outcomes(e) == [k \in 1..Len(Collectors) |-> Collector(Collectors[k], e)]

Failing(outs) == {k \in 1..Len(outs) : ~outs[k].ok}

FirstFailing(outs) == CHOOSE k \in Failing(outs) : \A j \in Failing(outs) : k <= j

Invoked(outs) ==
  [c \in CollectorSet |->
     IF Failing(outs) = {} THEN 1
     ELSE IF \E k \in 1..FirstFailing(outs) : Collectors[k] = c THEN 1 ELSE 0]

Snapshot(t, outs) ==
  [k \in {"time"} \cup CollectorSet |->
     IF k = "time" THEN t
     ELSE outs[CHOOSE j \in 1..Len(Collectors) : Collectors[j] = k].val]

collect(t, outs) ==
  IF Failing(outs) = {} THEN Ok(Snapshot(t, outs))
  ELSE Raise(outs[FirstFailing(outs)].exc)

\* -------------------------------------------------------------- renderers
\* A line of the text report is a tuple whose first element names the
\* f-string that produced it; the rest are the values it interpolates.
RECURSIVE Flatten(_)
Flatten(ss) == IF ss = << >> THEN << >> ELSE Head(ss) \o Flatten(Tail(ss))

DiskLines(i, disk) ==
  <<  <<"disk", i, disk.device, disk.mountpoint>>,
      <<"disk_type", disk.device>>,
      <<"disk_used", disk.percent>>  >>
  \o (IF "read_bytes" \in DOMAIN disk
        THEN << <<"disk_io", disk.read_bytes, disk.write_bytes>> >>
        ELSE << >>)

\* Variant: every address of the interface is printed.
IfaceLinesAll(i) ==
  IF i.ip_addresses # << >>
    THEN << <<"iface", i.name>> >>
         \o (IF i.mac # NoneVal THEN << <<"mac", i.mac>> >> ELSE << >>)
         \o [k \in 1..Len(i.ip_addresses) |-> <<"addr", i.ip_addresses[k]>>]
         \o (IF i.stats # EmptyDict
               THEN << <<"status", i.stats.is_up, i.stats.speed>> >>
               ELSE << >>)
    ELSE << >>

IfaceLines(i) ==
  IF i.ip_addresses # << >>
    THEN << <<"iface", i.name>> >>
         \o (IF i.mac # NoneVal THEN << <<"mac", i.mac>> >> ELSE << >>)
         \o [k \in 1..Len(Take(i.ip_addresses, ShownIps)) |->
               <<"addr", i.ip_addresses[k]>>]
         \o (IF i.stats # EmptyDict
               THEN << <<"status", i.stats.is_up, i.stats.speed>> >>
               ELSE << >>)
    ELSE << >>

\* A process line; the name stands for its first 20 characters, padded.
\* proc['name'][:20], {proc['cpu_percent']:5.1f} and
\* {proc['memory_percent']:5.1f} raise TypeError on None.
ProcLineRaises(proc) ==
  \/ proc.name = "None"
  \/ proc.cpu_percent = NoneVal
  \/ proc.memory_percent = NoneVal

ProcLine(i, proc) ==
  <<"proc", i, proc.name, proc.pid, proc.cpu_percent, proc.memory_percent>>

UserLines(users) ==
  IF users # << >>
    THEN << <<"header", "users">>, <<"rule", 40>> >>
         \o [k \in 1..Len(users) |->
               <<"user", users[k].name, users[k].host, users[k].started>>]
    ELSE << >>

text_report(d, t) ==
  IF "platform" \notin DOMAIN d THEN Raise("KeyError")
  ELSE IF \E k \in 1..Len(d.processes) : ProcLineRaises(d.processes[k])
    THEN Raise("TypeError")
  ELSE Ok(
    << <<"rule", 60>>, <<"title", t>>, <<"rule", 60>>,
       <<"header", "platform">>, <<"rule", 40>>,
       <<"system", d.platform.system, d.platform.release>>,
       <<"version", d.platform.version>>,
       <<"host", d.platform.host>>,
       <<"ip", d.platform.ip>>,
       <<"header", "cpu">>, <<"rule", 40>>,
       <<"cores", d.cpu.physical_cores, d.cpu.logical_cores>>,
       <<"freq", d.cpu.freq>>,
       <<"usage", d.cpu.usage>>,
       <<"per_cpu", d.cpu.per_cpu>>,
       <<"header", "memory">>, <<"rule", 40>>,
       <<"ram", d.memory.used_ram, d.memory.total_ram, d.memory.ram_percent>>,
       <<"swap", d.memory.swap>>,
       <<"header", "disks">>, <<"rule", 40>> >>
    \o Flatten([k \in 1..Len(d.disks) |-> DiskLines(k, d.disks[k])])
    \o << <<"header", "network">>, <<"rule", 40>>,
          <<"net_bytes", d.network.bytes_sent, d.network.bytes_recv>>,
          <<"net_packets", d.network.packets_sent, d.network.packets_recv>> >>
    \o Flatten([k \in 1..Len(d.network.interfaces) |->
                  IfaceLines(d.network.interfaces[k])])
    \o << <<"header", "processes">>, <<"rule", 40>> >>
    \o [k \in 1..Len(d.processes) |-> ProcLine(k, d.processes[k])]
    \o UserLines(d.users)
    \o << <<"boot", d.boot>>, <<"rule", 60>> >>)

\* json.dumps(self.info, indent=2, default=str): the members in insertion
\* order; every value of a snapshot is serialisable, None becomes null.
json_report(d) ==
  Ok([k \in 1..(IF d = EmptyDict THEN 0 ELSE Len(Keys)) |->
        <<Keys[k], d[Keys[k]]>>])

Render(f, d, t) == IF f = "json" THEN json_report(d) ELSE text_report(d, t)

\* bool(fname) of an optional string.
Truthy(s) == s # "None" /\ s # ""

\* save(): the name of the file and the outcome; `writable' is whether
\* open(fname, 'w') succeeds.
FileName(f, fname, now) ==
  [base  |-> IF Truthy(fname) THEN fname ELSE "system_report_",
   stamp |-> IF Truthy(fname) THEN NoneVal ELSE now,
   ext   |-> IF f = "json" THEN ".json" ELSE ".txt"]

save(f, d, t, fname, now, writable) ==
  IF ~Render(f, d, t).ok THEN Raise(Render(f, d, t).exc)
  ELSE IF ~writable THEN Raise("OSError")
  ELSE Ok(FileName(f, fname, now))

\* ------------------------------------------------------------ environments
SeqsUpTo(S, n) == UNION {[1..k -> S] : k \in 0..n}

PartKinds ==
  {[usage |-> "ok", io |-> "found"], [usage |-> "ok", io |-> "absent"],
   [usage |-> "ok", io |-> "raise"],
   [usage |-> "PermissionError", io |-> "absent"],
   [usage |-> "OSError", io |-> "absent"]}

Parts(f) == [k \in 1..Len(f) |->
               [device |-> k, usage |-> f[k].usage, io |-> f[k].io]]

GoodProc == [name |-> "proc", cpu_percent |-> 1, memory_percent |-> 1,
             detail |-> "ok"]

ProcKinds ==
  {GoodProc,
   [GoodProc EXCEPT !.memory_percent = 2],
   [GoodProc EXCEPT !.memory_percent = NoneVal],
   [GoodProc EXCEPT !.name = "None"],
   [GoodProc EXCEPT !.cpu_percent = NoneVal],
   [GoodProc EXCEPT !.detail = "NoSuchProcess"],
   [GoodProc EXCEPT !.detail = "AccessDenied"]}

RankKinds == {q \in ProcKinds : q.detail = "ok" /\ q.name = "proc"
                                /\ q.cpu_percent = 1}

Procs(f) == [k \in 1..Len(f) |->
               [pid |-> k, name |-> f[k].name, cpu_percent |-> f[k].cpu_percent,
                memory_percent |-> f[k].memory_percent, detail |-> f[k].detail]]

Families == {"AF_INET", "AF_INET6", "AF_LINK"}

Addrs(f) == [k \in 1..Len(f) |-> [family |-> f[k], address |-> k]]

StatKinds == {[present |-> FALSE, isup |-> FALSE, speed |-> 0],
              [present |-> TRUE,  isup |-> TRUE,  speed |-> 1000],
              [present |-> TRUE,  isup |-> FALSE, speed |-> 0]}

Lo == [name |-> "lo",
       addrs |-> <<[family |-> "AF_INET", address |-> 11],
                   [family |-> "AF_INET6", address |-> 12],
                   [family |-> "AF_INET6", address |-> 13]>>,
       stat |-> [present |-> FALSE, isup |-> FALSE, speed |-> 0]]

ChipNames == {"coretemp", "info"}

Readings(n) == [k \in 1..n |-> 40 + k]

Env0 ==
  [fails   |-> {},
   freq    |-> 2400,
   load    |-> 0,
   parts   |-> Parts(<<[usage |-> "ok", io |-> "found"]>>),
   procs   |-> Procs(<<GoodProc>>),
   ifaces  |-> <<[name |-> "eth0", addrs |-> Addrs(<<"AF_INET">>),
                  stat |-> [present |-> TRUE, isup |-> TRUE, speed |-> 1000]]>>,
   users   |-> 1,
   sensors |-> [supported |-> TRUE, temps |-> EmptyDict]]

EnvsFail ==
  {[Env0 EXCEPT !.fails = S, !.load = l] :
     S \in {T \in SUBSET CollectorSet : Cardinality(T) <= MaxFail},
     l \in 0..1}

EnvsDisks == {[Env0 EXCEPT !.parts = Parts(f)] : f \in SeqsUpTo(PartKinds, MaxParts)}

EnvsProcs ==
  {[Env0 EXCEPT !.procs = Procs(f), !.users = u] :
     f \in SeqsUpTo(ProcKinds, MaxFewProcs), u \in 0..1}

EnvsRank == {[Env0 EXCEPT !.procs = Procs(f)] : f \in SeqsUpTo(RankKinds, MaxProcs)}

EnvsNet ==
  {[Env0 EXCEPT !.ifaces =
      <<[name |-> "eth0", addrs |-> Addrs(f), stat |-> st]>> \o tl] :
     f \in SeqsUpTo(Families, MaxAddrs), st \in StatKinds,
     tl \in {<< >>, <<Lo>>}}

EnvsSensors ==
  {[Env0 EXCEPT !.sensors = [supported |-> FALSE, temps |-> EmptyDict]]}
  \cup {[Env0 EXCEPT !.sensors = [supported |-> TRUE, temps |-> tm]] :
          tm \in UNION {[C -> {Readings(n) : n \in 0..MaxReadings}] :
                          C \in SUBSET ChipNames}}

EnvsCpu == {[Env0 EXCEPT !.freq = f] : f \in {NoneVal, 2400}}

EnvsItems == EnvsDisks \cup EnvsProcs \cup EnvsNet \cup EnvsSensors \cup EnvsCpu

EnvsMain ==
  {Env0,
   [Env0 EXCEPT !.fails = {"platform"}],
   [Env0 EXCEPT !.procs = Procs(<<[GoodProc EXCEPT !.name = "None"]>>)]}

ArgsSet == [format : {"text", "json"}, output : {"None", "", "out"},
            print : BOOLEAN]

NoArgs == [format |-> "text", output |-> "None", print |-> FALSE]
NoRet  == [op |-> "", ok |-> TRUE, exc |-> ""]

\* ----------------------------------------------------------------- actions
\* The state after SystemReport(fmt) on a host in state e.
InitOn(E, T, F) ==
  /\ clock \in T
  /\ fmt \in F
  /\ info = EmptyDict
  /\ time = clock
  /\ env \in E
  /\ started = NoneVal
  /\ calls = [c \in CollectorSet |-> 0]
  /\ ret = NoRet
  /\ text = << >>
  /\ doc = << >>
  /\ pc = "api"
  /\ args = NoArgs
  /\ console = << >>
  /\ files = {}

Tick ==
  /\ clock < MaxClock
  /\ clock' = clock + 1
  /\ UNCHANGED <<fmt, info, time, env, started, calls, ret, text, doc,
                 pc, args, console, files>>

\* Between two calls the readings move, or one source breaks or recovers.
HostChange ==
  /\ pc = "api"
  /\ \/ env' = [env EXCEPT !.load = 1 - @]
     \/ \E c \in CollectorSet :
          env' = [env EXCEPT !.fails = IF c \in @ THEN @ \ {c} ELSE @ \cup {c}]
  /\ env' \in EnvsFail
  /\ UNCHANGED <<clock, fmt, info, time, started, calls, ret, text, doc,
                 pc, args, console, files>>

\* Variant: self.info is emptied and filled field by field.
DoCollectInPlace ==
  LET outs == Outcomes(env)
      r    == collect(time, outs) IN
  /\ started' = clock
  /\ calls' = Invoked(outs)
  /\ ret' = [op |-> "collect", ok |-> r.ok, exc |-> r.exc]
  /\ info' = IF r.ok THEN r.val ELSE [k \in {"time"} |-> time]

DoCollect ==
  LET outs == Outcomes(env)
      r    == collect(time, outs) IN
  /\ started' = clock
  /\ calls' = Invoked(outs)
  /\ ret' = [op |-> "collect", ok |-> r.ok, exc |-> r.exc]
  /\ info' = IF r.ok THEN r.val ELSE info

DoRender(f) ==
  LET r == Render(f, info, time) IN
  /\ ret' = [op |-> IF f = "json" THEN "json_report" ELSE "text_report",
             ok |-> r.ok, exc |-> r.exc]
  /\ text' = IF f # "json" /\ r.ok THEN r.val ELSE text
  /\ doc'  = IF f = "json" /\ r.ok THEN r.val ELSE doc

DoSave(fname, writable) ==
  LET r == save(fmt, info, time, fname, clock, writable) IN
  /\ ret' = [op |-> "save", ok |-> r.ok, exc |-> r.exc]
  /\ files' = IF r.ok THEN files \cup {r.val} ELSE files

Collect ==
  /\ pc = "api"
  /\ DoCollect
  /\ UNCHANGED <<clock, fmt, time, env, text, doc, pc, args, console, files>>

TextReport ==
  /\ pc = "api"
  /\ DoRender("text")
  /\ UNCHANGED <<clock, fmt, info, time, env, started, calls,
                 pc, args, console, files>>

JsonReport ==
  /\ pc = "api"
  /\ DoRender("json")
  /\ UNCHANGED <<clock, fmt, info, time, env, started, calls,
                 pc, args, console, files>>

\* main(): one action per statement of the try block, and the handler.
\* Variant: the file is written only when a name was given.
NeedSaveNamed(a) == Truthy(a.output)

NeedSave(a) == Truthy(a.output) \/ ~a.print

AfterCollect(a) == IF a.print THEN "print" ELSE IF NeedSave(a) THEN "save" ELSE "done"
AfterPrint(a)   == IF NeedSave(a) THEN "save" ELSE "done"

MainStart ==
  /\ pc = "start"
  /\ \E a \in ArgsSet : args' = a /\ fmt' = a.format
  /\ info' = EmptyDict
  /\ time' = clock
  /\ pc' = "collect"
  /\ UNCHANGED <<clock, env, started, calls, ret, text, doc, console, files>>

MainCollect ==
  /\ pc = "collect"
  /\ DoCollect
  /\ pc' = IF ret'.ok THEN AfterCollect(args) ELSE "except"
  /\ UNCHANGED <<clock, fmt, time, env, text, doc, args, console, files>>

MainPrint ==
  /\ pc = "print"
  /\ DoRender(args.format)
  /\ console' = IF ret'.ok THEN Append(console, <<"report", args.format>>)
                           ELSE console
  /\ pc' = IF ret'.ok THEN AfterPrint(args) ELSE "except"
  /\ UNCHANGED <<clock, fmt, info, time, env, started, calls, args, files>>

MainSave ==
  /\ pc = "save"
  /\ \E writable \in BOOLEAN : DoSave(args.output, writable)
  /\ console' = IF ret'.ok
                  THEN Append(console, <<"saved", FileName(fmt, args.output, clock)>>)
                  ELSE console
  /\ pc' = IF ret'.ok THEN "done" ELSE "except"
  /\ UNCHANGED <<clock, fmt, info, time, env, started, calls, text, doc, args>>

\* Variant: after reporting the error main() goes on to the save.
MainExceptGoesOn ==
  /\ pc = "except"
  /\ console' = Append(console, <<"error", ret.exc>>)
  /\ pc' = IF ret.op # "save" THEN "save" ELSE "done"
  /\ UNCHANGED <<clock, fmt, info, time, env, started, calls, ret, text, doc,
                 args, files>>

MainExcept ==
  /\ pc = "except"
  /\ console' = Append(console, <<"error", ret.exc>>)
  /\ pc' = "done"
  /\ UNCHANGED <<clock, fmt, info, time, env, started, calls, ret, text, doc,
                 args, files>>

\* --------------------------------------------------------- specifications
\* A report object on a host whose state changes between the calls.
Init == InitOn(EnvsFail, 0..MaxClock, {"text"})
Next == Collect \/ Tick \/ HostChange
Spec == Init /\ [][Next]_vars

\* A report object on one host out of the hosts of EnvsItems.
InitItems == InitOn(EnvsItems, {0}, {"text"})
NextItems == Collect \/ TextReport \/ JsonReport
SpecItems == InitItems /\ [][NextItems]_vars

\* _processes() over every enumeration of up to MaxProcs processes.
InitRank == InitOn(EnvsRank, {0}, {"text"})
NextRank == Collect
SpecRank == InitRank /\ [][NextRank]_vars

\* One run of main().
InitMain ==
  /\ clock = 0
  /\ fmt = "text"
  /\ info = EmptyDict
  /\ time = NoneVal
  /\ env \in EnvsMain
  /\ started = NoneVal
  /\ calls = [c \in CollectorSet |-> 0]
  /\ ret = NoRet
  /\ text = << >>
  /\ doc = << >>
  /\ pc = "start"
  /\ args = NoArgs
  /\ console = << >>
  /\ files = {}
NextMain == MainStart \/ MainCollect \/ MainPrint \/ MainSave \/ MainExcept \/ Tick
SpecMain == InitMain /\ [][NextMain]_vars

\* ------------------------------------------------------------------ claims
TenKeys == {"time", "platform", "cpu", "memory", "disks", "network",
            "processes", "users", "boot", "sensors"}

Collected == ret.op = "collect" /\ ret.ok

\* C1: collect() never fails and returns a snapshot with all ten top-level
\* fields, whichever underlying sources fail.
C1_CollectNeverFails ==
  ret.op = "collect" => (ret.ok /\ DOMAIN info = TenKeys)

\* C2: the list returned by _processes() has length min(8, candidates), is
\* ordered by memory percentage descending and keeps the enumeration order of
\* candidates with equal memory percentage, also when a percentage is None.
C2_TopEightStable ==
  ret.op = "collect" =>
    /\ ret.ok
    /\ LET ps == info.processes IN
       /\ Len(ps) = (IF Len(env.procs) < 8 THEN Len(env.procs) ELSE 8)
       /\ \A i, j \in 1..Len(ps) :
            i < j => \/ ps[i].memory_percent > ps[j].memory_percent
                     \/ /\ ps[i].memory_percent = ps[j].memory_percent
                        /\ ps[i].pid < ps[j].pid
       /\ \A q \in 1..Len(env.procs) :
            (\A i \in 1..Len(ps) : ps[i].pid # q) =>
               \A i \in 1..Len(ps) :
                  env.procs[q].memory_percent <= ps[i].memory_percent

\* Devices and counter flags of the partitions whose usage query succeeded,
\* in enumeration order.
RECURSIVE UsableParts(_)
UsableParts(parts) ==
  IF parts = << >> THEN << >>
  ELSE (IF Head(parts).usage = "ok"
          THEN << <<Head(parts).device, Head(parts).io = "found">> >>
          ELSE << >>) \o UsableParts(Tail(parts))

ReadablePids == {env.procs[k].pid : k \in {j \in 1..Len(env.procs) :
                                             env.procs[j].detail = "ok"}}

ItemErrors == {"PermissionError", "OSError", "NoSuchProcess", "AccessDenied"}

\* C3: a partition whose usage query raises, or a process that vanished or
\* denied access, is absent from the result without a placeholder; every
\* partition that could be read is present in enumeration order (also when
\* its I/O counter lookup fails), every readable process is a candidate, and
\* the item's failure does not reach collect(): the other fields are there.
C3_FailedItemsDropped ==
  /\ ret.op = "collect" /\ ~ret.ok => ret.exc \notin ItemErrors
  /\ info # EmptyDict =>
       /\ [k \in 1..Len(info.disks) |->
             <<info.disks[k].device, "read_bytes" \in DOMAIN info.disks[k]>>]
          = UsableParts(env.parts)
       /\ \A k \in 1..Len(info.disks) :
             {"device", "mountpoint", "percent"} \subseteq DOMAIN info.disks[k]
       /\ {info.processes[k].pid : k \in 1..Len(info.processes)} \subseteq ReadablePids
       /\ Cardinality(ReadablePids) <= 8 =>
             Len(info.processes) = Cardinality(ReadablePids)
       /\ \A k \in 1..Len(info.processes) :
             "memory_mb" \in DOMAIN info.processes[k]
       /\ {"memory", "network"} \subseteq DOMAIN info
       /\ info.memory.total_ram = 8
       /\ Len(info.network.interfaces) = Len(env.ifaces)

C3_Witness ==
  /\ Collected
  /\ Len(env.parts) = 2
  /\ env.parts[1].usage = "PermissionError"
  /\ env.parts[2].usage = "ok" /\ env.parts[2].io = "raise"
  /\ Len(info.disks) = 1 /\ info.disks[1].device = 2

NotApplicable == [info |-> [t |-> "str", s |-> "N/A", l |-> << >>]]

\* C4: the sensors field of a platform without thermal-sensor support is the
\* not-applicable indicator, no platform with sensor support produces that
\* value (with zero sensors it produces the empty mapping), and every
\* reported chip maps to its first 2 readings in enumeration order.
C4_SensorsDistinguishable ==
  info # EmptyDict =>
    IF ~env.sensors.supported
      THEN info.sensors = NotApplicable /\ info.sensors # EmptyDict
      ELSE /\ info.sensors # NotApplicable
           /\ env.sensors.temps = EmptyDict => info.sensors = EmptyDict
           /\ DOMAIN info.sensors = DOMAIN env.sensors.temps
           /\ \A c \in DOMAIN info.sensors :
                LET got == info.sensors[c].l
                    raw == env.sensors.temps[c] IN
                /\ info.sensors[c].t = "list"
                /\ Len(got) = (IF Len(raw) < 2 THEN Len(raw) ELSE 2)
                /\ \A k \in 1..Len(got) : got[k] = [current |-> raw[k]]

C4_Witness ==
  /\ Collected
  /\ env.sensors.supported
  /\ DOMAIN env.sensors.temps = {"info"}
  /\ Len(env.sensors.temps["info"]) = 3
  /\ Len(info.sensors["info"].l) = 2

\* C5: text_report() and json_report() return a string without raising for
\* every snapshot collect() can return.
C5_RenderersTotal ==
  (info # EmptyDict /\ ret.op \in {"text_report", "json_report"}) => ret.ok

\* C6: a collect() invokes every collector exactly once and the snapshot it
\* returns carries the time at which that collect() was entered.
C6_StampedAtCollect ==
  Collected => /\ \A c \in CollectorSet : calls[c] = 1
               /\ info.time = started

HasMessage(kind) == \E k \in 1..Len(console) : console[k][1] = kind

FileWanted == args.output \notin {"None", ""} \/ ~args.print

\* C7: main() writes a report file exactly when an output filename was given
\* or the print flag was not set (and never otherwise, not even in a run that
\* fails); a run without flags writes a timestamp-named file; when both are
\* requested the report is printed before the file is saved; nothing is
\* rendered or saved before the collection.
C7_FileIffRequested ==
  /\ files # {} => FileWanted
  /\ (pc = "done" /\ ret.ok) => (files # {} <=> FileWanted)
  /\ files # {} <=> HasMessage("saved")
  /\ Cardinality(files) <= 1
  /\ \A f \in files :
       /\ f.ext = (IF args.format = "json" THEN ".json" ELSE ".txt")
       /\ IF args.output \in {"None", ""}
            THEN f.base = "system_report_" /\ f.stamp \in started..clock
            ELSE f.base = args.output /\ f.stamp = NoneVal
  /\ (pc = "done" /\ ret.ok /\ args.print /\ FileWanted) =>
        /\ Len(console) = 2
        /\ console[1] = <<"report", args.format>>
        /\ console[2][1] = "saved" /\ console[2][2] \in files
  /\ (pc = "done" /\ ret.ok /\ args.print /\ ~FileWanted) =>
        console = << <<"report", args.format>> >>
  /\ (pc \in {"print", "save"} \/ HasMessage("report") \/ files # {}) =>
        (DOMAIN info = TenKeys /\ started # NoneVal)

C7_Witness ==
  /\ pc = "done" /\ ret.ok
  /\ args.print /\ args.output = "out"
  /\ files = {[base |-> "out", stamp |-> NoneVal, ext |-> ".txt"]}

Errors == {k \in 1..Len(console) : console[k][1] = "error"}

\* C8: a failure of collect(), of the rendering or of save() is reported by
\* main() exactly once, as a message naming the error, and ends the run: no
\* step runs after the failure, nothing is retried and no 'report saved'
\* message is printed.
C8_FailureReportedOnce ==
  /\ [](/\ ~ret.ok => pc \in {"except", "done"}
        /\ ret.ok => Errors = {}
        /\ (~ret.ok /\ pc = "except") => Errors = {}
        /\ (~ret.ok /\ pc = "done") =>
              /\ Errors = {Len(console)}
              /\ console[Len(console)] = <<"error", ret.exc>>
              /\ ret.exc \in {"gaierror", "Error", "TypeError", "KeyError", "OSError"}
              /\ ~HasMessage("saved")
              /\ ret.op = "save" => files = {})
  /\ [][~ret.ok =>
          /\ UNCHANGED <<ret, info, text, doc, files, started, calls>>
          /\ pc = "done" => UNCHANGED <<pc, console>>]_vars

C8_Witness ==
  /\ pc = "done"
  /\ ret.op = "save" /\ ~ret.ok
  /\ console = << <<"report", args.format>>, <<"error", "OSError">> >>
  /\ files = {}

\* The IP addresses of an interface in enumeration order, as the report
\* prints them.
RECURSIVE IpsOf(_)
IpsOf(addrs) ==
  IF addrs = << >> THEN << >>
  ELSE (IF Head(addrs).family = "AF_INET"
          THEN << <<"IPv4", Head(addrs).address>> >>
        ELSE IF Head(addrs).family = "AF_INET6"
          THEN << <<"IPv6", Head(addrs).address>> >>
        ELSE << >>) \o IpsOf(Tail(addrs))

RECURSIVE AddrLinesOf(_, _)
AddrLinesOf(lines, i) ==
  IF lines = << >> THEN << >>
  ELSE (IF Head(lines)[1] = "addr"
           /\ \E k \in 1..Len(i.addrs) : i.addrs[k].address = Head(lines)[2][2]
          THEN <<Head(lines)[2]>> ELSE << >>) \o AddrLinesOf(Tail(lines), i)

TextRendered == ret.op = "text_report" /\ ret.ok

\* C9: the text report shows, for every interface, at most 2 address lines,
\* and they are the first 2 IP addresses of the interface in enumeration
\* order, however many addresses the host reports.
C9_TwoAddressesShown ==
  TextRendered =>
    \A k \in 1..Len(env.ifaces) :
      LET shown == AddrLinesOf(text, env.ifaces[k])
          ips   == IpsOf(env.ifaces[k].addrs) IN
      /\ Len(shown) <= 2
      /\ Len(shown) = (IF Len(ips) < 2 THEN Len(ips) ELSE 2)
      /\ \A j \in 1..Len(shown) : shown[j] = ips[j]

C9_Witness ==
  /\ TextRendered
  /\ Len(env.ifaces) = 2
  /\ Len(IpsOf(env.ifaces[1].addrs)) = 3
  /\ Len(AddrLinesOf(text, env.ifaces[1])) = 2
  /\ Len(AddrLinesOf(text, env.ifaces[2])) = 2

\* The readings of one snapshot were all taken on the same host state.
OneSampling(d) ==
  \E l \in 0..1 :
    /\ d.cpu.usage = 37 + l
    /\ d.cpu.per_cpu = <<30 + l, 44 + l>>
    /\ d.memory.ram_percent = 37 + l
    /\ d.memory.used_ram = 3 + l
    /\ d.network.packets_sent = 3 + l

\* C10: the stored snapshot is always either empty or a complete ten-field
\* snapshot whose readings come from one collect(); a collect() that returns
\* stores the snapshot of the host state it read, a collect() that raises in
\* some collector leaves the stored snapshot unchanged.
C10_NoPartialSnapshot ==
  /\ [](info = EmptyDict \/ (DOMAIN info = TenKeys /\ OneSampling(info)))
  /\ [][Collect =>
          IF ret'.ok
            THEN /\ DOMAIN info' = TenKeys
                 /\ info'.cpu.usage = 37 + env.load
                 /\ info'.memory.ram_percent = 37 + env.load
                 /\ info'.network.packets_sent = 3 + env.load
            ELSE info' = info]_vars

C10_Witness ==
  /\ ret.op = "collect" /\ ~ret.ok
  /\ DOMAIN info = TenKeys
  /\ info.cpu.usage # 37 + env.load

====
